---------------------------- MODULE Spec2Model ----------------------------
(***************************************************************************)
(* Aerofit case study: the data pipeline of src/data_processing.py (load,   *)
(* basic_clean, impute_and_cast, feature_engineering, write) and the chart  *)
(* renderer of src/plots.py (generate_all and its eight chart functions).   *)
(*                                                                          *)
(* Text (column names, text cells, CSV fields) is a sequence of one-        *)
(* character strings, so that lower(), upper(), strip(), replace() and the  *)
(* "in" test are computed character by character.  A number is an integer   *)
(* count of 1/Den: hundredths (the bin edge 2.99) halved (the median of an  *)
(* even number of values), so every number the pipeline produces from the   *)
(* model's inputs is represented exactly.                                   *)
(***************************************************************************)
EXTENDS Integers, Sequences, FiniteSets, TLC

VARIABLES
    pc,        \* position of the run
    args,      \* [path, url]: the arguments of process / load_data
    env,       \* [default_exists]: whether data/aerofit_treadmill.csv exists
    raw,       \* the table the chosen source holds (what pd.read_csv returns)
    prev,      \* the table before the last stage that ran
    df,        \* the table in hand
    reads,     \* the sources pd.read_csv was called on, in order
    dir_made,  \* output_path.parent.mkdir has run
    csv,       \* the file at output_path: absent, an earlier run's, or written
    called,    \* the chart functions generate_all has called, in order
    saved      \* the image files _save has written, in order

vars == <<pc, args, env, raw, prev, df, reads, dir_made, csv, called, saved>>

\* a number n stands for n/Den: hundredths, halved
Den == 2 * 100

(***************************************************************************)
(* Text.                                                                    *)
(***************************************************************************)
UpperCase == <<"A","B","C","D","E","F","G","H","I","J","K","L","M",
               "N","O","P","Q","R","S","T","U","V","W","X","Y","Z">>
LowerCase == <<"a","b","c","d","e","f","g","h","i","j","k","l","m",
               "n","o","p","q","r","s","t","u","v","w","x","y","z">>
Digits == <<"0","1","2","3","4","5","6","7","8","9">>
Whitespace == {" ", "\t", "\n"}

IndexIn(c, alphabet) ==
    IF \E i \in 1..Len(alphabet) : alphabet[i] = c
    THEN CHOOSE i \in 1..Len(alphabet) : alphabet[i] = c
    ELSE 0

\* str.lower() / str.upper(), one character
LowerChar(c) == IF IndexIn(c, UpperCase) > 0 THEN LowerCase[IndexIn(c, UpperCase)] ELSE c
UpperChar(c) == IF IndexIn(c, LowerCase) > 0 THEN UpperCase[IndexIn(c, LowerCase)] ELSE c

Lower(s) == [i \in 1..Len(s) |-> LowerChar(s[i])]
Upper(s) == [i \in 1..Len(s) |-> UpperChar(s[i])]

\* str.strip(): leading and trailing whitespace removed, internal kept
RECURSIVE LStrip(_)
LStrip(s) == IF s # <<>> /\ Head(s) \in Whitespace THEN LStrip(Tail(s)) ELSE s
RECURSIVE RStrip(_)
RStrip(s) ==
    IF s # <<>> /\ s[Len(s)] \in Whitespace THEN RStrip(SubSeq(s, 1, Len(s) - 1)) ELSE s
Strip(s) == RStrip(LStrip(s))

\* str.replace(old, new) for a one-character old
RECURSIVE ReplaceChar(_, _, _)
ReplaceChar(s, old, new) ==
    IF s = <<>> THEN <<>>
    ELSE (IF Head(s) = old THEN new ELSE <<Head(s)>>) \o ReplaceChar(Tail(s), old, new)

\* str.replace(r"\s+", "", regex=True): every run of whitespace removed
RECURSIVE RemoveWhitespace(_)
RemoveWhitespace(s) ==
    IF s = <<>> THEN <<>>
    ELSE (IF Head(s) \in Whitespace THEN <<>> ELSE <<Head(s)>>) \o RemoveWhitespace(Tail(s))

\* Python's  sub in s
Contains(s, sub) ==
    \E i \in 1..(Len(s) - Len(sub) + 1) : SubSeq(s, i, i + Len(sub) - 1) = sub

(***************************************************************************)
(* Numbers as text: what to_csv writes and what read_csv / to_numeric       *)
(* parse.  A number n stands for n/Den.                                     *)
(***************************************************************************)
RECURSIVE NatText(_)
NatText(n) == IF n < 10 THEN <<Digits[n + 1]>> ELSE NatText(n \div 10) \o <<Digits[(n % 10) + 1]>>

RECURSIVE DropTrailingZeros(_)
DropTrailingZeros(s) ==
    IF s # <<>> /\ s[Len(s)] = "0" THEN DropTrailingZeros(SubSeq(s, 1, Len(s) - 1)) ELSE s

\* the three decimals of a fraction f/Den (Den divides 1000), trailing zeros dropped
FracText(f) ==
    LET th == f * (1000 \div Den)
    IN  DropTrailingZeros(<<Digits[(th \div 100) + 1], Digits[((th \div 10) % 10) + 1],
                            Digits[(th % 10) + 1]>>)

NumText(n) ==
    LET a == IF n < 0 THEN -n ELSE n
        body == NatText(a \div Den) \o
                (IF a % Den = 0 THEN <<>> ELSE <<".">> \o FracText(a % Den))
    IN  (IF n < 0 THEN <<"-">> ELSE <<>>) \o body

IsDigits(s) == s # <<>> /\ \A i \in 1..Len(s) : IndexIn(s[i], Digits) > 0

RECURSIVE DigitsValue(_)
DigitsValue(s) ==
    IF s = <<>> THEN 0 ELSE 10 * DigitsValue(SubSeq(s, 1, Len(s) - 1)) + (IndexIn(s[Len(s)], Digits) - 1)

\* the fraction digits d1 d2 d3 (at most three) in thousandths
FracThousandths(s) ==
    LET padded == s \o SubSeq(<<"0","0","0">>, 1, 3 - Len(s))
    IN  DigitsValue(padded)

DotAt(s) == IF \E i \in 1..Len(s) : s[i] = "." THEN CHOOSE i \in 1..Len(s) : s[i] = "." ELSE 0

\* an unsigned decimal  digits[.digits]  whose value is a multiple of 1/Den
IsDecimal(s) ==
    LET d == DotAt(s)
    IN  IF d = 0 THEN IsDigits(s)
        ELSE /\ IsDigits(SubSeq(s, 1, d - 1))
             /\ IsDigits(SubSeq(s, d + 1, Len(s)))
             /\ Len(s) - d <= 3
             /\ FracThousandths(SubSeq(s, d + 1, Len(s))) % (1000 \div Den) = 0

DecimalValue(s) ==
    LET d == DotAt(s)
    IN  IF d = 0 THEN Den * DigitsValue(s)
        ELSE Den * DigitsValue(SubSeq(s, 1, d - 1))
             + FracThousandths(SubSeq(s, d + 1, Len(s))) \div (1000 \div Den)

\* the text parses as a number (surrounding whitespace is accepted)
Parses(s) ==
    LET t == Strip(s)
    IN  t # <<>> /\ IF Head(t) = "-" THEN IsDecimal(Tail(t)) ELSE IsDecimal(t)

ParseValue(s) ==
    LET t == Strip(s)
    IN  IF Head(t) = "-" THEN -DecimalValue(Tail(t)) ELSE DecimalValue(t)

\* the texts the parsers read as a missing value
NaTexts == { <<>>, <<"n","a","n">>, <<"N","a","N">>, <<"N","A">> }

(***************************************************************************)
(* Cells and tables.  A cell is a number, a missing number (NaN), a text, a  *)
(* timestamp or a missing timestamp (NaT); a table (DataFrame) is its       *)
(* column names in order, its row count and one sequence of cells per       *)
(* column.                                                                  *)
(***************************************************************************)
Num(n) == [k |-> "num", n |-> n, s |-> <<>>]
NaN == [k |-> "nan", n |-> 0, s |-> <<>>]
Str(s) == [k |-> "str", n |-> 0, s |-> s]
Stamp(n) == [k |-> "dt", n |-> n, s |-> <<>>]
NaT == [k |-> "nat", n |-> 0, s |-> <<>>]

Range(f) == { f[i] : i \in DOMAIN f }

Has(t, c) == c \in Range(t.cols)
Col(t, c) == t.data[c]

\* df[c] = cells: replaces column c, or appends it as the last column
SetCol(t, c, cells) ==
    [cols |-> IF Has(t, c) THEN t.cols ELSE Append(t.cols, c),
     n    |-> t.n,
     data |-> [x \in Range(t.cols) \cup {c} |-> IF x = c THEN cells ELSE t.data[x]]]

MapCol(cells, F(_)) == [i \in 1..Len(cells) |-> F(cells[i])]

Row(t, i) == [c \in Range(t.cols) |-> t.data[c][i]]

EmptyTable == [cols |-> <<>>, n |-> 0, data |-> <<>>]

\* the dtype pandas holds a column in: object when it has a text, a number
\* dtype when every cell is a number or NaN (an empty column read from a CSV
\* file is object)
IsObject(cells) == \E i \in 1..Len(cells) : cells[i].k = "str"
IsNumeric(cells) == Len(cells) > 0 /\ \A i \in 1..Len(cells) : cells[i].k \in {"num", "nan"}

\* one cell of astype(str): NaN becomes the text "nan"
AsStr(cell) ==
    CASE cell.k = "str" -> cell
      [] cell.k = "num" -> Str(NumText(cell.n))
      [] cell.k = "dt" -> Str(<<"1","9","7","0","-","0","1","-","0","1"," ","0","0",":","0","0",":","0","0">>)
      [] cell.k = "nat" -> Str(<<"N","a","T">>)
      [] OTHER -> Str(<<"n","a","n">>)

(***************************************************************************)
(* basic_clean                                                              *)
(***************************************************************************)
\* lambda c: c.strip().lower().replace(" ", "_")
NormalizeName(c) == ReplaceChar(Lower(Strip(c)), " ", <<"_">>)

RenameColumns(t) ==
    [cols |-> [i \in 1..Len(t.cols) |-> NormalizeName(t.cols[i])],
     n    |-> t.n,
     data |-> [x \in { NormalizeName(c) : c \in Range(t.cols) } |->
                 t.data[t.cols[CHOOSE i \in 1..Len(t.cols) : NormalizeName(t.cols[i]) = x]]]]

\* the rows drop_duplicates() keeps: the first occurrence of each row
RECURSIVE KeptRows(_, _)
KeptRows(t, i) ==
    IF i > t.n THEN <<>>
    ELSE (IF \E j \in 1..(i - 1) : Row(t, j) = Row(t, i) THEN <<>> ELSE <<i>>)
         \o KeptRows(t, i + 1)

DropDuplicates(t) ==
    LET keep == KeptRows(t, 1)
    IN  [cols |-> t.cols,
         n    |-> Len(keep),
         data |-> [c \in Range(t.cols) |-> [i \in 1..Len(keep) |-> t.data[c][keep[i]]]]]

StripCell(cell) == Str(Strip(AsStr(cell).s))

\* df[c].astype(str).str.strip() for every object column
TrimObjectColumns(t) ==
    [t EXCEPT !.data = [c \in Range(t.cols) |->
        IF IsObject(t.data[c]) THEN MapCol(t.data[c], StripCell) ELSE t.data[c]]]

basic_clean(t) == TrimObjectColumns(DropDuplicates(RenameColumns(t)))

(***************************************************************************)
(* Column names and labels of the source.                                   *)
(***************************************************************************)
c_income == <<"i","n","c","o","m","e">>
c_miles == <<"m","i","l","e","s">>
c_usage == <<"u","s","a","g","e">>
c_fitness == <<"f","i","t","n","e","s","s">>
c_age == <<"a","g","e">>
c_year == <<"y","e","a","r">>
c_price == <<"p","r","i","c","e">>
c_quantity == <<"q","u","a","n","t","i","t","y">>
c_count == <<"c","o","u","n","t">>
c_product == <<"p","r","o","d","u","c","t">>
c_gender == <<"g","e","n","d","e","r">>
c_education == <<"e","d","u","c","a","t","i","o","n">>
c_registered == <<"r","e","g","i","s","t","e","r","e","d">>
c_casual == <<"c","a","s","u","a","l">>
c_product_label == <<"p","r","o","d","u","c","t","_","l","a","b","e","l">>
c_gender_label == <<"g","e","n","d","e","r","_","l","a","b","e","l">>
c_education_label == <<"e","d","u","c","a","t","i","o","n","_","l","a","b","e","l">>
c_income_bucket == <<"i","n","c","o","m","e","_","b","u","c","k","e","t">>
c_miles_category == <<"m","i","l","e","s","_","c","a","t","e","g","o","r","y">>
c_usage_category == <<"u","s","a","g","e","_","c","a","t","e","g","o","r","y">>
c_age_bucket == <<"a","g","e","_","b","u","c","k","e","t">>
c_date == <<"d","a","t","e">>
c_hour == <<"h","o","u","r">>
c_day_of_week == <<"d","a","y","_","o","f","_","w","e","e","k">>

LowMediumHigh == << <<"l","o","w">>, <<"m","e","d","i","u","m">>, <<"h","i","g","h">> >>
CasualRegularHeavy == << <<"c","a","s","u","a","l">>, <<"r","e","g","u","l","a","r">>, <<"h","e","a","v","y">> >>
AgeLabels == << <<"<","2","5">>, <<"2","5","-","3","4">>, <<"3","5","-","4","4">>, <<"4","5","-","5","4">>, <<"5","5","+">> >>
Unknown == <<"u","n","k","n","o","w","n">>

(***************************************************************************)
(* impute_and_cast                                                          *)
(***************************************************************************)
numeric_candidates ==
    <<c_income, c_miles, c_usage, c_fitness, c_age, c_year, c_price, c_quantity, c_count>>

categorical_columns == <<c_product, c_gender, c_education>>

\* one cell of pd.to_numeric(errors="coerce")
ToNumeric(cell) ==
    CASE cell.k = "num" -> cell
      [] cell.k = "str" /\ Parses(cell.s) -> Num(ParseValue(cell.s))
      [] OTHER -> NaN

\* the numbers of a column, in row order (the NaN cells skipped)
RECURSIVE Values(_)
Values(cells) ==
    IF cells = <<>> THEN <<>>
    ELSE (IF Head(cells).k = "num" THEN <<Head(cells).n>> ELSE <<>>) \o Values(Tail(cells))

Sorted(vs) == SortSeq(vs, LAMBDA a, b : a < b)

\* a faulty median: the upper of the two middle values instead of their mean
Median_UpperMiddle(vs) == Sorted(vs)[Len(vs) \div 2 + 1]

\* Series.median(skipna=True) of a non-empty list of numbers: the middle one,
\* or the mean of the two middle ones
Median(vs) ==
    LET s == Sorted(vs)
        m == Len(s)
    IN  IF m % 2 = 1 THEN s[(m + 1) \div 2] ELSE (s[m \div 2] + s[m \div 2 + 1]) \div 2

\* med = median; if np.isnan(med): med = 0
FillValue(cells) == IF Values(cells) = <<>> THEN 0 ELSE Median(Values(cells))

FillNa(cells, v) == [i \in 1..Len(cells) |-> IF cells[i].k = "nan" THEN Num(v) ELSE cells[i]]

ImputeColumn(cells) ==
    LET numeric == MapCol(cells, ToNumeric)
    IN  FillNa(numeric, FillValue(numeric))

RECURSIVE ImputeFrom(_, _)
ImputeFrom(t, i) ==
    IF i > Len(numeric_candidates) THEN t
    ELSE LET col == numeric_candidates[i]
         IN  ImputeFrom(IF Has(t, col) THEN SetCol(t, col, ImputeColumn(Col(t, col))) ELSE t,
                        i + 1)

RECURSIVE CastFrom(_, _)
CastFrom(t, i) ==
    IF i > Len(categorical_columns) THEN t
    ELSE LET cat == categorical_columns[i]
         IN  CastFrom(IF Has(t, cat) THEN SetCol(t, cat, MapCol(Col(t, cat), StripCell)) ELSE t,
                      i + 1)

impute_and_cast(t) == CastFrom(ImputeFrom(t, 1), 1)

(***************************************************************************)
(* pd.cut and pd.qcut                                                       *)
(***************************************************************************)
NegInf == [inf |-> -1, v |-> 0]
PosInf == [inf |-> 1, v |-> 0]
Edge(v) == [inf |-> 0, v |-> v]

\* edge < x  and  x <= edge, for a finite x
EdgeBelow(e, x) == e.inf = -1 \/ (e.inf = 0 /\ e.v < x)
EdgeAtLeast(e, x) == e.inf = 1 \/ (e.inf = 0 /\ x <= e.v)

\* pd.cut(x, bins=[...], labels=[...]): right-closed intervals, the lowest edge
\* not included; a value in no interval, or a NaN, gets NaN
CutCell(cell, bins, labels) ==
    IF cell.k = "num" /\ \E i \in 1..Len(labels) :
                            EdgeBelow(bins[i], cell.n) /\ EdgeAtLeast(bins[i + 1], cell.n)
    THEN Str(labels[CHOOSE i \in 1..Len(labels) :
                       EdgeBelow(bins[i], cell.n) /\ EdgeAtLeast(bins[i + 1], cell.n)])
    ELSE NaN

Cut(cells, bins, labels) == [i \in 1..Len(cells) |-> CutCell(cells[i], bins, labels)]

\* three times the quantiles 0, 1/3, 2/3, 1 of the numbers vs (linear
\* interpolation between the two nearest order statistics)
QcutEdges(vs) ==
    LET s == Sorted(vs)
        m == Len(s)
    IN  [j \in 1..4 |->
            LET p == (j - 1) * (m - 1)
                lo == p \div 3 + 1
            IN  IF p % 3 = 0 THEN 3 * s[lo] ELSE 3 * s[lo] + (p % 3) * (s[lo + 1] - s[lo])]

\* pd.qcut raises "Bin edges must be unique" (also when there is no number)
QcutRaises(cells) ==
    \/ Values(cells) = <<>>
    \/ \E j \in 1..3 : QcutEdges(Values(cells))[j] = QcutEdges(Values(cells))[j + 1]

\* pd.qcut(x, q=3, labels=[...]): right-closed intervals, the lowest included
QcutCell(cell, e, labels) ==
    IF cell.k # "num" THEN NaN
    ELSE LET x == 3 * cell.n
         IN  IF x = e[1] THEN Str(labels[1])
             ELSE IF \E i \in 1..3 : e[i] < x /\ x <= e[i + 1]
                  THEN Str(labels[CHOOSE i \in 1..3 : e[i] < x /\ x <= e[i + 1]])
                  ELSE NaN

Qcut(cells, labels) ==
    [i \in 1..Len(cells) |-> QcutCell(cells[i], QcutEdges(Values(cells)), labels)]

Min(vs) == Sorted(vs)[1]
Max(vs) == Sorted(vs)[Len(vs)]
Abs(x) == IF x < 0 THEN -x ELSE x

\* pd.cut(x, bins=3) raises on an empty column ("Cannot cut empty array")
CutEqualWidthRaises(cells) == Values(cells) = <<>>

\* 3000 times the four edges of pd.cut(x, bins=3): np.linspace(mn, mx, 4) with
\* the lowest edge moved down by 0.1% of the range; when mn = mx the range is
\* first widened by 0.1% of |mn| (by 0.001 when mn = 0) on both sides
EqualWidthEdges(vs) ==
    LET mn == Min(vs)
        mx == Max(vs)
        w  == IF mn # 0 THEN 3 * Abs(mn) ELSE 3 * Den
        lo == IF mn = mx THEN 3000 * mn - w ELSE 3000 * mn
        hi == IF mn = mx THEN 3000 * mx + w ELSE 3000 * mx
    IN  [j \in 1..4 |->
            IF j = 1 /\ mn # mx THEN lo - 3 * (mx - mn)
            ELSE lo + (j - 1) * ((hi - lo) \div 3)]

CutEqualWidthCell(cell, e, labels) ==
    IF cell.k = "num" /\ \E i \in 1..3 : e[i] < 3000 * cell.n /\ 3000 * cell.n <= e[i + 1]
    THEN Str(labels[CHOOSE i \in 1..3 : e[i] < 3000 * cell.n /\ 3000 * cell.n <= e[i + 1]])
    ELSE NaN

CutEqualWidth(cells, labels) ==
    [i \in 1..Len(cells) |-> CutEqualWidthCell(cells[i], EqualWidthEdges(Values(cells)), labels)]

\* Series.nunique(): the distinct numbers, NaN not counted
NUnique(cells) == Cardinality(Range(Values(cells)))

(***************************************************************************)
(* feature_engineering                                                      *)
(***************************************************************************)
\* a .str method on one cell: a cell that is no text gives NaN
StrMethod(cell, F(_)) == IF cell.k = "str" THEN Str(F(cell.s)) ELSE NaN

\* df["product"].str.upper().str.replace(r"\s+", "", regex=True)
ProductLabel(cell) == StrMethod(cell, LAMBDA s : RemoveWhitespace(Upper(s)))

\* lambda x: "male" if "m" in x else ("female" if "f" in x else x)
GenderOf(x) ==
    IF Contains(x, <<"m">>) THEN <<"m","a","l","e">>
    ELSE IF Contains(x, <<"f">>) THEN <<"f","e","m","a","l","e">>
    ELSE x

\* df["gender"].str.lower().map(...)
GenderLabel(cell) == StrMethod(cell, LAMBDA s : GenderOf(Lower(s)))

\* faulty usage bins: the lowest edge 0 instead of -inf
usage_bins_FromZero == <<Edge(0), Edge(299 * (Den \div 100)), Edge(5 * Den), PosInf>>

income_bins == <<NegInf, Edge(40000 * Den), Edge(70000 * Den), PosInf>>
usage_bins == <<NegInf, Edge(299 * (Den \div 100)), Edge(5 * Den), PosInf>>
age_bins == <<Edge(0), Edge(24 * Den), Edge(34 * Den), Edge(44 * Den), Edge(54 * Den),
              Edge(120 * Den)>>

\* df["income"].replace({0: np.nan})
ZeroToNaN(cell) == IF cell.k = "num" /\ cell.n = 0 THEN NaN ELSE cell

IncomeBucket(cells) ==
    IF QcutRaises(MapCol(cells, ZeroToNaN))
    THEN Cut(cells, income_bins, LowMediumHigh)
    ELSE Qcut(MapCol(cells, ZeroToNaN), LowMediumHigh)

MilesCategory(cells) ==
    IF NUnique(cells) >= 3
    THEN IF QcutRaises(cells)
         THEN [i \in 1..Len(cells) |-> Str(Unknown)]
         ELSE Qcut(cells, LowMediumHigh)
    ELSE IF CutEqualWidthRaises(cells)
         THEN [i \in 1..Len(cells) |-> Str(Unknown)]
         ELSE CutEqualWidth(cells, LowMediumHigh)

UsageCategory(cells) == Cut(cells, usage_bins, CasualRegularHeavy)

AgeBucket(cells) == Cut(cells, age_bins, AgeLabels)

\* .astype(str).str.lower().replace({...}): whole values are replaced
EducationOf(s) ==
    CASE s \in { <<"b","a","c","h","e","l","o","r","s">>, <<"b","a","c","h","e","l","o","r","'","s">> } -> <<"b","a","c","h","e","l","o","r">>
      [] s \in { <<"m","a","s","t","e","r","s">>, <<"m","a","s","t","e","r","'","s">> } -> <<"m","a","s","t","e","r">>
      [] OTHER -> s

EducationLabel(cell) == Str(EducationOf(Lower(AsStr(cell).s)))

\* "date" in c or "time" in c or "datetime" in c
DateLike(c) == Contains(c, <<"d","a","t","e">>) \/ Contains(c, <<"t","i","m","e">>) \/ Contains(c, <<"d","a","t","e","t","i","m","e">>)

\* the columns of t whose names are date-like, in column order
RECURSIVE DatetimeCols(_)
DatetimeCols(cols) ==
    IF cols = <<>> THEN <<>>
    ELSE (IF DateLike(Head(cols)) THEN <<Head(cols)>> ELSE <<>>) \o DatetimeCols(Tail(cols))

\* the timestamp texts to_csv writes
StampTexts == { <<"1","9","7","0","-","0","1","-","0","1">>, <<"1","9","7","0","-","0","1","-","0","1"," ","0","0",":","0","0",":","0","0">> }

\* pd.to_datetime(errors="coerce"): a number is a count of nanoseconds since
\* 1970-01-01 00:00; NaN and a text that is no timestamp give NaT
ToDatetime(cell) ==
    CASE cell.k = "dt" -> cell
      [] cell.k = "num" -> Stamp(cell.n \div Den)
      [] cell.k = "str" /\ cell.s \in StampTexts -> Stamp(0)
      [] OTHER -> NaT

\* .dt.date, .dt.hour, .dt.day_name() of a timestamp less than an hour away
\* from 1970-01-01 00:00 (a Thursday)
DateOf(cell) ==
    IF cell.k # "dt" THEN NaT
    ELSE IF cell.n >= 0 THEN Str(<<"1","9","7","0","-","0","1","-","0","1">>) ELSE Str(<<"1","9","6","9","-","1","2","-","3","1">>)
HourOf(cell) ==
    IF cell.k # "dt" THEN NaN ELSE IF cell.n >= 0 THEN Num(0) ELSE Num(23 * Den)
DayNameOf(cell) ==
    IF cell.k # "dt" THEN NaN
    ELSE IF cell.n >= 0 THEN Str(<<"T","h","u","r","s","d","a","y">>) ELSE Str(<<"W","e","d","n","e","s","d","a","y">>)

DatetimeFeatures(t) ==
    IF DatetimeCols(t.cols) = <<>> THEN t
    ELSE LET dtc == DatetimeCols(t.cols)[1]
             t1 == SetCol(t, dtc, MapCol(Col(t, dtc), ToDatetime))
             t2 == SetCol(t1, c_date, MapCol(Col(t1, dtc), DateOf))
             t3 == SetCol(t2, c_hour, MapCol(Col(t1, dtc), HourOf))
         IN  SetCol(t3, c_day_of_week, MapCol(Col(t1, dtc), DayNameOf))

\* the count column is derived: registered and casual both exist, count does not
CountDerived(t) ==
    /\ (Has(t, c_registered) \/ Has(t, c_casual)) /\ ~Has(t, c_count)
    /\ Has(t, c_registered) /\ Has(t, c_casual)

\* one cell of reg + cas
AddCells(a, b) ==
    CASE a.k = "num" /\ b.k = "num" -> Num(a.n + b.n)
      [] a.k = "str" /\ b.k = "str" -> Str(a.s \o b.s)
      [] OTHER -> NaN

\* reg + cas raises TypeError: a text added to a number
AddRaises(a, b) == (a.k = "str") # (b.k = "str")

CountColumn(t) ==
    [i \in 1..t.n |-> AddCells(Col(t, c_registered)[i], Col(t, c_casual)[i])]

\* feature_engineering raises (the only raise of the function on a table that
\* impute_and_cast returned)
feature_engineering_raises(t) ==
    /\ CountDerived(t)
    /\ \E i \in 1..t.n : AddRaises(Col(t, c_registered)[i], Col(t, c_casual)[i])

Derive(t, src, dst, F(_)) == IF Has(t, src) THEN SetCol(t, dst, F(Col(t, src))) ELSE t

feature_engineering(t) ==
    LET t1 == Derive(t, c_product, c_product_label, LAMBDA cs : MapCol(cs, ProductLabel))
        t2 == Derive(t1, c_gender, c_gender_label, LAMBDA cs : MapCol(cs, GenderLabel))
        t3 == Derive(t2, c_income, c_income_bucket, IncomeBucket)
        t4 == Derive(t3, c_miles, c_miles_category, MilesCategory)
        t5 == Derive(t4, c_usage, c_usage_category, UsageCategory)
        t6 == Derive(t5, c_age, c_age_bucket, AgeBucket)
        t7 == Derive(t6, c_education, c_education_label, LAMBDA cs : MapCol(cs, EducationLabel))
        t8 == DatetimeFeatures(t7)
    IN  IF CountDerived(t8) THEN SetCol(t8, c_count, CountColumn(t8)) ELSE t8

(***************************************************************************)
(* CSV files: df.to_csv(path, index=False) and pd.read_csv(path).  A file   *)
(* is the header and one text field per cell.                               *)
(***************************************************************************)
FieldOf(cell) ==
    CASE cell.k = "num" -> NumText(cell.n)
      [] cell.k = "str" -> cell.s
      [] cell.k = "dt"  -> <<"1","9","7","0","-","0","1","-","0","1"," ","0","0",":","0","0",":","0","0">>
      [] OTHER -> <<>>

to_csv(t) == [cols |-> t.cols, n |-> t.n,
              data |-> [c \in Range(t.cols) |-> MapCol(t.data[c], FieldOf)]]

\* a column is parsed as numbers when every field is a number or a missing
\* value; otherwise it is kept as text, the missing values as NaN
ReadColumn(fields) ==
    IF \A i \in 1..Len(fields) : fields[i] \in NaTexts \/ Parses(fields[i])
    THEN [i \in 1..Len(fields) |->
             IF fields[i] \in NaTexts THEN NaN ELSE Num(ParseValue(fields[i]))]
    ELSE [i \in 1..Len(fields) |->
             IF fields[i] \in NaTexts THEN NaN ELSE Str(fields[i])]

read_csv(f) == [cols |-> f.cols, n |-> f.n,
                data |-> [c \in Range(f.cols) |-> ReadColumn(f.data[c])]]

NoFile == [state |-> "absent", file |-> EmptyTable]
OldFile == [state |-> "old", file |-> EmptyTable]
PartialFile == [state |-> "partial", file |-> EmptyTable]
Written(t) == [state |-> "written", file |-> to_csv(t)]

(***************************************************************************)
(* load_data                                                                *)
(***************************************************************************)
None == [given |-> FALSE, s |-> <<>>]
Arg(s) == [given |-> TRUE, s |-> s]

\* Python's truth value of an argument: None and "" are false
Truthy(a) == a.given /\ a.s # <<>>

\* a faulty choice of source: the path argument tested before the URL argument
SourceOf_PathFirst(path, url, default_exists) ==
    IF Truthy(path) THEN [kind |-> "path", at |-> path.s]
    ELSE IF Truthy(url) THEN [kind |-> "url", at |-> url.s]
    ELSE IF default_exists THEN [kind |-> "DEFAULT_INPUT", at |-> <<>>]
    ELSE [kind |-> "DEFAULT_URL", at |-> <<>>]

\* the one source load_data hands to pd.read_csv
SourceOf(path, url, default_exists) ==
    IF Truthy(url) THEN [kind |-> "url", at |-> url.s]
    ELSE IF Truthy(path) THEN [kind |-> "path", at |-> path.s]
    ELSE IF default_exists THEN [kind |-> "DEFAULT_INPUT", at |-> <<>>]
    ELSE [kind |-> "DEFAULT_URL", at |-> <<>>]

(***************************************************************************)
(* process: mkdir, load, clean, impute, derive, write.  pd.read_csv and     *)
(* df.to_csv succeed or raise as the file system and the network decide.    *)
(***************************************************************************)
\* a faulty first step: the output file is opened for writing with the directory
Mkdir_OpensOutput ==
    /\ pc = "start"
    /\ dir_made' = TRUE
    /\ csv' = PartialFile
    /\ pc' = "load"
    /\ UNCHANGED <<args, env, raw, prev, df, reads, called, saved>>

Mkdir ==
    /\ pc = "start"
    /\ dir_made' = TRUE
    /\ pc' = "load"
    /\ UNCHANGED <<args, env, raw, prev, df, reads, csv, called, saved>>

load_data ==
    /\ pc = "load"
    /\ reads' = Append(reads, SourceOf(args.path, args.url, env.default_exists))
    /\ \E ok \in BOOLEAN :
          IF ok THEN df' = raw /\ pc' = "clean"
          ELSE df' = df /\ pc' = "raised"
    /\ UNCHANGED <<args, env, raw, prev, dir_made, csv, called, saved>>

Clean ==
    /\ pc = "clean"
    /\ prev' = df
    /\ df' = basic_clean(df)
    /\ pc' = "impute"
    /\ UNCHANGED <<args, env, raw, reads, dir_made, csv, called, saved>>

Impute ==
    /\ pc = "impute"
    /\ prev' = df
    /\ df' = impute_and_cast(df)
    /\ pc' = "derive"
    /\ UNCHANGED <<args, env, raw, reads, dir_made, csv, called, saved>>

DeriveFeatures ==
    /\ pc = "derive"
    /\ prev' = df
    /\ IF feature_engineering_raises(df)
       THEN df' = df /\ pc' = "raised"
       ELSE df' = feature_engineering(df) /\ pc' = "write"
    /\ UNCHANGED <<args, env, raw, reads, dir_made, csv, called, saved>>

\* to_csv either writes the whole file, or raises before or while writing
Write ==
    /\ pc = "write"
    /\ \/ csv' = Written(df) /\ pc' = "returned"
       \/ csv' = csv /\ pc' = "raised"
       \/ csv' = PartialFile /\ pc' = "raised"
    /\ UNCHANGED <<args, env, raw, prev, df, reads, dir_made, called, saved>>

(***************************************************************************)
(* Input tables.  A raw table is what pd.read_csv returns: a column holds   *)
(* numbers and NaN, or texts and NaN.                                       *)
(***************************************************************************)
MaxSurveyRows == 2
MaxCountRows == 1

\* the table with the given column names and rows (each row a tuple of cells)
TableOf(cols, rows) ==
    [cols |-> cols, n |-> Len(rows),
     data |-> [c \in Range(cols) |->
                 [i \in 1..Len(rows) |-> rows[i][CHOOSE j \in 1..Len(cols) : cols[j] = c]]]]

\* the sequences of at most n elements of S
SeqsUpTo(S, n) == UNION { [1..m -> S] : m \in 0..n }

RECURSIVE KeepCols(_, _)
KeepCols(cols, keep) ==
    IF cols = <<>> THEN <<>>
    ELSE (IF Head(cols) \in keep THEN <<Head(cols)>> ELSE <<>>) \o KeepCols(Tail(cols), keep)

\* the table t without the columns outside keep
Project(t, keep) ==
    [cols |-> KeepCols(t.cols, keep), n |-> t.n,
     data |-> [c \in Range(t.cols) \cap keep |-> t.data[c]]]

\* the survey's columns as the CSV file names them
SurveyCols == << <<"P","r","o","d","u","c","t">>, <<"A","g","e">>, <<"G","e","n","d","e","r">>, <<"I","n","c","o","m","e">>, <<"M","i","l","e","s">>, <<"U","s","a","g","e">> >>

\* the survey's columns with the education column some files also have
FullCols == SurveyCols \o << <<"E","d","u","c","a","t","i","o","n">> >>

FullRows ==
    { << Str(<<"K","P","2","8","1">>), Num(18 * Den), Str(<<"M","a","l","e">>), Num(29562 * Den), Num(112 * Den),
         Num(3 * Den), Str(<<"B","a","c","h","e","l","o","r","s">>) >>,
      << Str(<<"k","p"," ","7","8","1">>), Num(47 * Den), Str(<<"F","e","m","a","l","e">>), Num(104581 * Den), NaN,
         Num(7 * Den), Str(<<"m","a","s","t","e","r","s"," ">>) >>,
      << Str(<<"K","P","4","8","1"," ">>), NaN, Str(<<"X">>), Num(0), Num(85 * Den), Num(2 * Den), NaN >> }

FullTables == { TableOf(FullCols, rows) : rows \in SeqsUpTo(FullRows, MaxSurveyRows) }

SurveyTables == { Project(t, Range(SurveyCols)) : t \in FullTables }

CountCells == { NaN, Num(Den), Str(<<"x">>) }

\* a column holds numbers and NaN, or texts and NaN
WellTyped(t) ==
    \A c \in Range(t.cols) :
        ~(\E i \in 1..t.n : t.data[c][i].k = "num") \/ ~(\E i \in 1..t.n : t.data[c][i].k = "str")

CountTables ==
    { t \in { TableOf(cols, rows) :
                cols \in { << <<"r","e","g","i","s","t","e","r","e","d">>, <<"c","a","s","u","a","l">> >>, << <<"R","e","g","i","s","t","e","r","e","d">>, <<" ","c","a","s","u","a","l">> >>,
                           << <<"r","e","g","i","s","t","e","r","e","d">> >>,
                           << <<"r","e","g","i","s","t","e","r","e","d">>, <<"c","a","s","u","a","l">>, <<"c","o","u","n","t">> >> },
                rows \in UNION { [1..m -> [1..3 -> CountCells]] : m \in 1..MaxCountRows } } :
        WellTyped(t) }

ProcessInputs == SurveyTables \cup CountTables

ArgValues == { None, Arg(<<>>), Arg(<<"i","n",".","c","s","v">>) }

Init ==
    /\ pc = "start"
    /\ args \in [path : ArgValues, url : ArgValues]
    /\ env \in [default_exists : BOOLEAN]
    /\ raw \in ProcessInputs
    /\ prev = EmptyTable
    /\ df = EmptyTable
    /\ reads = <<>>
    /\ dir_made = FALSE
    /\ csv \in {NoFile, OldFile}
    /\ called = <<>>
    /\ saved = <<>>

Next ==
    \/ Mkdir
    \/ load_data
    \/ Clean
    \/ Impute
    \/ DeriveFeatures
    \/ Write

Spec == Init /\ [][Next]_vars

(***************************************************************************)
(* Claims about process and load_data (specification Spec).                 *)
(***************************************************************************)

\* C8: load_data reads exactly one source, chosen by strict priority: the URL
\* argument if given (whatever the path argument is), else the path argument if
\* given, else the default local file if it exists, else the default URL; a
\* failed read raises and no other source is read.  An argument is given when
\* it is neither None nor the empty text.
C8_LoadPriority ==
    /\ Len(reads) <= 1
    /\ (pc \notin {"start", "load"}) => Len(reads) = 1
    /\ reads # <<>> =>
         LET r == reads[1]
             url_given == args.url.given /\ Len(args.url.s) > 0
             path_given == args.path.given /\ Len(args.path.s) > 0
         IN  /\ url_given => r.kind = "url" /\ r.at = args.url.s
             /\ ~url_given /\ path_given => r.kind = "path" /\ r.at = args.path.s
             /\ ~url_given /\ ~path_given /\ env.default_exists => r.kind = "DEFAULT_INPUT"
             /\ ~url_given /\ ~path_given /\ ~env.default_exists => r.kind = "DEFAULT_URL"

\* C8 witness: both arguments given, the URL read failed, the path was not read
C8_Witness ==
    /\ pc = "raised"
    /\ Truthy(args.url) /\ Truthy(args.path)
    /\ reads = << [kind |-> "url", at |-> args.url.s] >>
    /\ df = EmptyTable

\* C10: the stages run in the order mkdir, load, clean, impute, derive, write;
\* the output file changes only in the write step, which runs only once the
\* four earlier stages have completed, so a run in which load_data or a later
\* stage raises leaves the output file as it was, with the parent directory
\* already created before loading started.
C10_StageOrder ==
    /\ [](reads # <<>> => dir_made)
    /\ [](csv.state = "written" =>
            /\ pc = "returned"
            /\ Len(reads) = 1
            /\ csv.file = to_csv(df)
            /\ prev = impute_and_cast(basic_clean(raw)))
    /\ [][csv' # csv => pc = "write"]_vars
    /\ [][pc' # pc =>
            \/ pc' = "raised" /\ pc \in {"load", "derive", "write"}
            \/ <<pc, pc'>> \in { <<"start", "load">>, <<"load", "clean">>,
                                 <<"clean", "impute">>, <<"impute", "derive">>,
                                 <<"derive", "write">>, <<"write", "returned">> }]_vars

\* C10 witness: load_data raised after the directory was made, and the output
\* file of an earlier run is still in place
C10_Witness ==
    /\ pc = "raised"
    /\ reads # <<>> /\ df = EmptyTable /\ prev = EmptyTable
    /\ dir_made
    /\ csv = OldFile

\* C7: in the table process returns, every numeric candidate column that is
\* present holds a number in every row (no missing value), the count column
\* that feature_engineering creates included.
C7_ProcessedPopulated ==
    pc \in {"write", "returned"} =>
        \A i \in 1..Len(numeric_candidates) :
            Has(df, numeric_candidates[i]) =>
                \A r \in 1..df.n : Col(df, numeric_candidates[i])[r].k = "num"

(***************************************************************************)
(* plots.py: generate_all and the eight chart functions.  Rendering a       *)
(* chart and saving it (seaborn, matplotlib, fig.savefig) succeeds or       *)
(* raises; no chart function and no caller catches what they raise.         *)
(***************************************************************************)
\* generate_all's own date column: the first date-like column is parsed, and
\* a date column is added when the table has none
PlotDateColumn(t) ==
    IF DatetimeCols(t.cols) = <<>> THEN t
    ELSE LET dtc == DatetimeCols(t.cols)[1]
             t1 == SetCol(t, dtc, MapCol(Col(t, dtc), ToDatetime))
         IN  IF Has(t1, c_date) THEN t1
             ELSE SetCol(t1, c_date, MapCol(Col(t1, dtc), DateOf))

\* pd.read_csv raises on a file with no columns (EmptyDataError)
ReadRaises(f) == f.cols = <<>>

\* df.select_dtypes(include=[np.number]).shape[1]
NumericColumns(t) == { c \in Range(t.cols) : IsNumeric(Col(t, c)) }

generate_all ==
    /\ pc = "generate_all"
    /\ IF csv.state = "absent" \/ ReadRaises(csv.file)
       THEN df' = df /\ pc' = "plots_raised"
       ELSE df' = PlotDateColumn(read_csv(csv.file)) /\ pc' = "plot1"
    /\ UNCHANGED <<args, env, raw, prev, reads, dir_made, csv, called, saved>>

\* one chart function: the column check, then the rendering and _save
Plot(at, name, present, file, next) ==
    /\ pc = at
    /\ called' = Append(called, name)
    /\ IF ~present
       THEN saved' = saved /\ pc' = next
       ELSE \E ok \in BOOLEAN :
               IF ok THEN saved' = Append(saved, file) /\ pc' = next
               ELSE saved' = saved /\ pc' = "plots_raised"
    /\ UNCHANGED <<args, env, raw, prev, df, reads, dir_made, csv>>

plot_product_distribution ==
    Plot("plot1", "plot_product_distribution",
         Has(df, c_product_label),
         "product_distribution.png", "plot2")

\* a faulty column check: skipped only when both columns are missing
plot_income_by_product_BothMissing ==
    Plot("plot2", "plot_income_by_product",
         ~(~Has(df, c_income) /\ ~Has(df, c_product_label)),
         "income_by_product_boxplot.png", "plot3")

plot_income_by_product ==
    Plot("plot2", "plot_income_by_product",
         ~(~Has(df, c_income) \/ ~Has(df, c_product_label)),
         "income_by_product_boxplot.png", "plot3")

plot_miles_vs_usage ==
    Plot("plot3", "plot_miles_vs_usage",
         ~(~Has(df, c_miles) \/ ~Has(df, c_usage)),
         "miles_vs_usage.png", "plot4")

plot_usage_histogram ==
    Plot("plot4", "plot_usage_histogram",
         Has(df, c_usage),
         "usage_histogram.png", "plot5")

plot_product_gender ==
    Plot("plot5", "plot_product_gender",
         ~(~Has(df, c_product_label) \/ ~Has(df, c_gender_label)),
         "product_gender_bar.png", "plot6")

plot_usage_by_product ==
    Plot("plot6", "plot_usage_by_product",
         ~(~Has(df, c_usage) \/ ~Has(df, c_product_label)),
         "usage_by_product_boxplot.png", "plot7")

plot_education_vs_product ==
    Plot("plot7", "plot_education_vs_product",
         ~(~Has(df, c_education_label) \/ ~Has(df, c_product_label)),
         "education_product_stacked.png", "plot8")

\* a faulty column check: the heatmap also asks for education_label
plot_correlation_heatmap_NeedsEducation ==
    Plot("plot8", "plot_correlation_heatmap",
         Has(df, c_education_label) /\ ~(Cardinality(NumericColumns(df)) < 2),
         "correlation_heatmap.png", "done")

plot_correlation_heatmap ==
    Plot("plot8", "plot_correlation_heatmap",
         ~(Cardinality(NumericColumns(df)) < 2),
         "correlation_heatmap.png", "done")

\* the table process returns for the raw table t
Processed(t) == feature_engineering(impute_and_cast(basic_clean(t)))

\* the tables the renderer is run on: every choice of the survey's columns,
\* and tables with a date-like column
TimeTables ==
    { TableOf(<< <<"P","r","o","d","u","c","t">>, <<"T","i","m","e">> >>, << <<Str(<<"K","P","2","8","1">>), c>> >>) :
        c \in { Num(0), NaN, Str(<<"1","9","7","0","-","0","1","-","0","1">>) } }

PlotInputs == { Project(t, keep) : t \in FullTables, keep \in SUBSET Range(FullCols) }
              \cup TimeTables

\* each input with the file process writes for it
ProcessedFiles == { <<t, Written(Processed(t))>> : t \in PlotInputs }

InitPlots ==
    /\ pc = "generate_all"
    /\ args = [path |-> None, url |-> None]
    /\ env = [default_exists |-> TRUE]
    /\ \E p \in ProcessedFiles : raw = p[1] /\ csv \in {NoFile, p[2]}
    /\ prev = EmptyTable
    /\ df = EmptyTable
    /\ reads = <<>>
    /\ dir_made = TRUE
    /\ called = <<>>
    /\ saved = <<>>

NextPlots ==
    \/ generate_all
    \/ plot_product_distribution
    \/ plot_income_by_product
    \/ plot_miles_vs_usage
    \/ plot_usage_histogram
    \/ plot_product_gender
    \/ plot_usage_by_product
    \/ plot_education_vs_product
    \/ plot_correlation_heatmap

SpecPlots == InitPlots /\ [][NextPlots]_vars

(***************************************************************************)
(* Claims about the chart renderer (specification SpecPlots).               *)
(***************************************************************************)
\* the eight charts in generate_all's order, with the columns the design
\* gives as required (the heatmap: at least two numeric columns)
Charts ==
    << [name |-> "plot_product_distribution", file |-> "product_distribution.png",
        needs |-> {c_product_label}],
       [name |-> "plot_income_by_product", file |-> "income_by_product_boxplot.png",
        needs |-> {c_income, c_product_label}],
       [name |-> "plot_miles_vs_usage", file |-> "miles_vs_usage.png",
        needs |-> {c_miles, c_usage}],
       [name |-> "plot_usage_histogram", file |-> "usage_histogram.png",
        needs |-> {c_usage}],
       [name |-> "plot_product_gender", file |-> "product_gender_bar.png",
        needs |-> {c_product_label, c_gender_label}],
       [name |-> "plot_usage_by_product", file |-> "usage_by_product_boxplot.png",
        needs |-> {c_usage, c_product_label}],
       [name |-> "plot_education_vs_product", file |-> "education_product_stacked.png",
        needs |-> {c_education_label, c_product_label}],
       [name |-> "plot_correlation_heatmap", file |-> "correlation_heatmap.png",
        needs |-> {}] >>

ColumnsPresent(i) ==
    IF i = 8
    THEN \E a, b \in Range(df.cols) :
            a # b /\ df.n > 0
            /\ \A c \in {a, b} : \A r \in 1..df.n : Col(df, c)[r].k \in {"num", "nan"}
    ELSE Charts[i].needs \subseteq Range(df.cols)

TimesSaved(file) == Cardinality({ j \in 1..Len(saved) : saved[j] = file })

\* chart i raised: it is the last one called and the run ended in its raise
Raised(i) == pc = "plots_raised" /\ i = Len(called)

\* C9 as stated: every chart generate_all was to run has written no file and
\* raised nothing when a required column is missing, has written exactly one
\* file when its columns are present, and this holds whatever the charts
\* before it did.
C9_AsStated ==
    (called # <<>> /\ pc \in {"done", "plots_raised"}) =>
        \A i \in 1..8 :
            /\ ~ColumnsPresent(i) => TimesSaved(Charts[i].file) = 0 /\ ~Raised(i)
            /\ ColumnsPresent(i) => TimesSaved(Charts[i].file) = 1

\* C9 amended: the charts are called in the fixed order; a chart whose
\* required columns are missing writes no file and raises nothing; a chart whose
\* columns are present writes exactly one file, under its own name, unless its
\* rendering or saving raises; a raise ends generate_all, so no later chart is
\* called or written; in a run that ends without a raise every chart is
\* written exactly when its own columns are present.
C9_ChartsGuarded ==
    /\ Len(called) <= 8
    /\ \A i \in 1..Len(called) :
          /\ called[i] = Charts[i].name
          /\ ~ColumnsPresent(i) => TimesSaved(Charts[i].file) = 0 /\ ~Raised(i)
          /\ ColumnsPresent(i) /\ ~Raised(i) => TimesSaved(Charts[i].file) = 1
          /\ Raised(i) => TimesSaved(Charts[i].file) = 0
    /\ \A i \in (Len(called) + 1)..8 : TimesSaved(Charts[i].file) = 0
    /\ Range(saved) \subseteq { Charts[i].file : i \in 1..8 }
    /\ pc = "done" =>
          /\ Len(called) = 8
          /\ \A i \in 1..8 : TimesSaved(Charts[i].file) = (IF ColumnsPresent(i) THEN 1 ELSE 0)

\* C9 witness: a full run in which the first chart was skipped for its missing
\* column and later charts were written
C9_Witness ==
    /\ pc = "done"
    /\ ~Has(df, c_product_label)
    /\ saved = <<"miles_vs_usage.png", "usage_histogram.png", "correlation_heatmap.png">>

SixColumnInput == raw.cols = SurveyCols

\* C3 as stated: from an input with exactly the six survey columns,
\* generate_all writes exactly 6 files; the education chart and the
\* correlation heatmap are the two not written.
C3_AsStated ==
    (pc = "done" /\ SixColumnInput) =>
        /\ Len(saved) = 6
        /\ "education_product_stacked.png" \notin Range(saved)
        /\ "correlation_heatmap.png" \notin Range(saved)

\* C3 amended: from an input with exactly the six survey columns and at least
\* one row, a generate_all run that ends without a raise writes exactly 7 of
\* the 8 files: only education_product_stacked.png, the one chart that needs
\* education_label, is skipped; the correlation heatmap is written.
C3_SevenCharts ==
    (pc = "done" /\ SixColumnInput /\ raw.n >= 1) =>
        saved = << "product_distribution.png", "income_by_product_boxplot.png",
                   "miles_vs_usage.png", "usage_histogram.png", "product_gender_bar.png",
                   "usage_by_product_boxplot.png", "correlation_heatmap.png" >>

\* C3 witness: a finished run on a six-column input with a duplicate row
C3_Witness ==
    /\ pc = "done"
    /\ SixColumnInput /\ raw.n = 2 /\ df.n = 1
    /\ ~Has(df, c_education_label)
    /\ Len(saved) = 7

(***************************************************************************)
(* The stages on their own: basic_clean, impute_and_cast and                *)
(* feature_engineering applied in process's order to one-topic tables.      *)
(***************************************************************************)
MaxRows == 4
MaxCleanRows == 3

\* the tables with the one column col and at most n rows of cells from S
OneColumn(col, S, n) ==
    { TableOf(<<col>>, rows) : rows \in UNION { [1..m -> [1..1 -> S]] : m \in 0..n } }

GenderTokens == { <<"M","a","l","e">>, <<"M">>, <<"m">>, <<"F","e","m","a","l","e">>, <<"f">>, <<"X">> }
GenderTables == OneColumn(<<"G","e","n","d","e","r">>, { Str(s) : s \in GenderTokens }, MaxRows)

AgeTables ==
    { t \in OneColumn(<<"A","g","e">>, { Num(0), Num(24 * Den), Num(25 * Den), Num(120 * Den),
                                 Num(121 * Den), NaN, Str(<<"x">>), Str(<<"3","0">>) }, MaxRows) :
        WellTyped(t) }

IncomeTables ==
    OneColumn(<<"I","n","c","o","m","e">>, { Num(0), Num(30000 * Den), Num(50000 * Den), Num(80000 * Den), NaN },
              MaxRows)

UsageTables ==
    OneColumn(<<"U","s","a","g","e">>, { Num(0), Num(299 * (Den \div 100)), Num(3 * Den), Num(5 * Den),
                           Num(501 * (Den \div 100)), NaN }, MaxRows)

\* miles beside a fitness column that tells the rows apart, as the survey's
\* other columns do, so that equal miles survive the duplicate removal
MilesTables ==
    { TableOf(<< <<"M","i","l","e","s">>, <<"F","i","t","n","e","s","s">> >>, [i \in 1..Len(ms) |-> <<ms[i], Num(i * Den)>>]) :
        ms \in SeqsUpTo({ Num(50 * Den), Num(100 * Den), Num(150 * Den), NaN }, MaxRows) }

StageInputs == GenderTables \cup AgeTables \cup IncomeTables \cup UsageTables \cup MilesTables

InitStages ==
    /\ pc = "clean"
    /\ args = [path |-> None, url |-> None]
    /\ env = [default_exists |-> TRUE]
    /\ raw \in StageInputs
    /\ prev = EmptyTable
    /\ df = raw
    /\ reads = <<>>
    /\ dir_made = TRUE
    /\ csv = NoFile
    /\ called = <<>>
    /\ saved = <<>>

NextStages ==
    \/ Clean
    \/ Impute
    \/ DeriveFeatures

SpecStages == InitStages /\ [][NextStages]_vars

\* basic_clean applied to its own output
CleanAgain ==
    /\ pc = "impute"
    /\ prev' = df
    /\ df' = basic_clean(df)
    /\ pc' = "recleaned"
    /\ UNCHANGED <<args, env, raw, reads, dir_made, csv, called, saved>>

CleanInputs ==
    { t \in { TableOf(<< <<"P","r","o","d","u","c","t"," ">>, <<"A","g","e">> >>, rows) :
                rows \in SeqsUpTo({ Str(<<"a">>), Str(<<" ","a">>), Str(<<"b"," ","c">>), NaN }
                                  \X { Num(Den), NaN }, MaxCleanRows) } :
        WellTyped(t) }

InitClean ==
    /\ pc = "clean"
    /\ args = [path |-> None, url |-> None]
    /\ env = [default_exists |-> TRUE]
    /\ raw \in CleanInputs
    /\ prev = EmptyTable
    /\ df = raw
    /\ reads = <<>>
    /\ dir_made = TRUE
    /\ csv = NoFile
    /\ called = <<>>
    /\ saved = <<>>

NextClean ==
    \/ Clean
    \/ CleanAgain

SpecClean == InitClean /\ [][NextClean]_vars

(***************************************************************************)
(* Claims about the stages (specifications SpecStages and SpecClean).       *)
(***************************************************************************)
\* feature_engineering has run: df is its result and prev the table it was given
Derived == pc = "write"

\* C1: gender_label is male for the gender values "Male", "M" and "m", female
\* for "Female" and "f", and the value itself for the unrecognized "X".
C1_GenderLabel ==
    (Derived /\ Has(prev, c_gender)) =>
        \A r \in 1..df.n :
            LET g == Col(prev, c_gender)[r].s
                label == Col(df, c_gender_label)[r]
            IN  /\ g \in { <<"M","a","l","e">>, <<"M">>, <<"m">> } => label = Str(<<"m","a","l","e">>)
                /\ g \in { <<"F","e","m","a","l","e">>, <<"f">> } => label = Str(<<"f","e","m","a","l","e">>)
                /\ g = <<"X">> => label = Str(<<"X">>)

\* C4: age_bucket is <25 for age 24, 25-34 for age 25, 55+ for age 120 and
\* <25 for age 0.
C4_AgeBoundaries ==
    (Derived /\ Has(prev, c_age)) =>
        \A r \in 1..df.n :
            LET age == Col(prev, c_age)[r].n
                bucket == Col(df, c_age_bucket)[r]
            IN  /\ age = 24 * Den => bucket = Str(<<"<","2","5">>)
                /\ age = 25 * Den => bucket = Str(<<"2","5","-","3","4">>)
                /\ age = 120 * Den => bucket = Str(<<"5","5","+">>)
                /\ age = 0 => bucket = Str(<<"<","2","5">>)

LabelsIn(col, labels) ==
    Has(df, col) => \A r \in 1..df.n : Col(df, col)[r] \in { Str(l) : l \in labels }

\* C5 as stated: in the table process returns, income_bucket and
\* miles_category hold low, medium or high, usage_category holds casual,
\* regular or heavy and age_bucket holds one of its five labels, in every row.
C5_AsStated ==
    Derived =>
        /\ LabelsIn(c_income_bucket, { <<"l","o","w">>, <<"m","e","d","i","u","m">>, <<"h","i","g","h">> })
        /\ LabelsIn(c_miles_category, { <<"l","o","w">>, <<"m","e","d","i","u","m">>, <<"h","i","g","h">> })
        /\ LabelsIn(c_usage_category, { <<"c","a","s","u","a","l">>, <<"r","e","g","u","l","a","r">>, <<"h","e","a","v","y">> })
        /\ LabelsIn(c_age_bucket, { <<"<","2","5">>, <<"2","5","-","3","4">>, <<"3","5","-","4","4">>, <<"4","5","-","5","4">>, <<"5","5","+">> })

\* C5 amended: in the table process returns, usage_category holds casual,
\* regular or heavy in every row; miles_category holds low, medium or high in
\* every row, or the literal unknown in every row; income_bucket holds low,
\* medium or high, or is missing in a row whose income is 0; age_bucket holds
\* one of its five labels, or is missing in a row whose age is 0 or less or
\* above 120.  No column holds any other value.
C5_LabelSets ==
    Derived =>
        /\ LabelsIn(c_usage_category, { <<"c","a","s","u","a","l">>, <<"r","e","g","u","l","a","r">>, <<"h","e","a","v","y">> })
        /\ \/ LabelsIn(c_miles_category, { <<"l","o","w">>, <<"m","e","d","i","u","m">>, <<"h","i","g","h">> })
           \/ LabelsIn(c_miles_category, { <<"u","n","k","n","o","w","n">> })
        /\ Has(df, c_income_bucket) =>
              \A r \in 1..df.n :
                  \/ Col(df, c_income_bucket)[r] \in { Str(<<"l","o","w">>), Str(<<"m","e","d","i","u","m">>), Str(<<"h","i","g","h">>) }
                  \/ Col(df, c_income_bucket)[r] = NaN /\ Col(df, c_income)[r] = Num(0)
        /\ Has(df, c_age_bucket) =>
              \A r \in 1..df.n :
                  LET age == Col(df, c_age)[r].n
                  IN  IF age <= 0 \/ age > 120 * Den
                      THEN Col(df, c_age_bucket)[r] = NaN
                      ELSE Col(df, c_age_bucket)[r] \in
                             { Str(l) : l \in { <<"<","2","5">>, <<"2","5","-","3","4">>, <<"3","5","-","4","4">>, <<"4","5","-","5","4">>, <<"5","5","+">> } }

\* C5 witness: a table of four rows whose miles_category is unknown in every
\* row (the quantile edges of its miles are not distinct)
C5_Witness ==
    /\ Derived
    /\ df.n = 4
    /\ Has(df, c_miles_category)
    /\ \A r \in 1..df.n : Col(df, c_miles_category)[r] = Str(<<"u","n","k","n","o","w","n">>)

\* impute_and_cast has run: df is its result and prev the table it was given
Imputed == pc = "derive"

\* the number a cell holds before the fill, if any
HoldsNumber(cell) == cell.k = "num" \/ (cell.k = "str" /\ Parses(cell.s))
NumberOf(cell) == IF cell.k = "num" THEN cell.n ELSE ParseValue(cell.s)

\* the k-th smallest of the numbers the column holds
OrderStatistic(cells, k) ==
    LET held == { i \in 1..Len(cells) : HoldsNumber(cells[i]) }
    IN  CHOOSE v \in { NumberOf(cells[i]) : i \in held } :
            /\ Cardinality({ i \in held : NumberOf(cells[i]) < v }) < k
            /\ k <= Cardinality({ i \in held : NumberOf(cells[i]) <= v })

\* twice the median of the numbers the column holds (0 when it holds none)
TwiceMedian(cells) ==
    LET m == Cardinality({ i \in 1..Len(cells) : HoldsNumber(cells[i]) })
    IN  IF m = 0 THEN 0
        ELSE OrderStatistic(cells, (m + 1) \div 2) + OrderStatistic(cells, (m + 2) \div 2)

\* C6: after impute_and_cast every candidate column that is present holds a
\* number in every row; a value that was missing or unparseable equals the
\* median of the column's numbers before the fill (0 when there was none), and
\* a value that was a number is unchanged.
C6_MedianFill ==
    Imputed =>
        \A i \in 1..Len(numeric_candidates) :
            LET col == numeric_candidates[i]
            IN  Has(prev, col) =>
                  /\ Has(df, col) /\ df.n = prev.n
                  /\ \A r \in 1..df.n :
                        LET before == Col(prev, col)[r]
                            after == Col(df, col)[r]
                        IN  /\ after.k = "num"
                            /\ HoldsNumber(before) => after.n = NumberOf(before)
                            /\ ~HoldsNumber(before) =>
                                  2 * after.n = TwiceMedian(Col(prev, col))

\* C6 witness: an age column with a missing value, two different numbers and
\* nothing else, filled
C6_Witness ==
    /\ Imputed
    /\ Has(prev, c_age) /\ prev.n = 3
    /\ \E r \in 1..3 : Col(prev, c_age)[r] = NaN /\ Col(df, c_age)[r].k = "num"
    /\ Cardinality({ r \in 1..3 : Col(prev, c_age)[r].k = "num" }) = 2

\* C2: basic_clean returns a table with no two equal rows, so that applying
\* basic_clean to its output leaves the row count as it is.
C2_DedupIdempotent ==
    /\ (pc = "impute") => \A i, j \in 1..df.n : i # j => Row(df, i) # Row(df, j)
    /\ (pc = "recleaned") => df.n = prev.n

=============================================================================
